---- MODULE Spec2Model ----
(***************************************************************************)
(* Citagraph: the citation store kept in citation_data3.json and the       *)
(* handlers of the two Streamlit scripts that read and write it,           *)
(* citagraph2.py (Add Paper, Edit/Delete Paper, Edit Citations) and        *)
(* citagraph3.py (Fetch and Add Paper, Edit/Delete Paper).                 *)
(*                                                                         *)
(* Every script run starts with load_graph_from_json(DATA_FILE), executes  *)
(* the sidebar blocks in source order with at most one button pressed, and *)
(* writes the file only through save_graph_to_json.  What survives a run   *)
(* is the file and the colour maps of st.session_state; the in-memory      *)
(* store is rebuilt from the file at the start of the next run.  Text that *)
(* the user typed into                                                     *)
(* the Edit fields is an input of the run in which a button is pressed.    *)
(* A button press (one action per button) is followed by a rerun of the    *)
(* script, which rebuilds the store from the file and clears the messages. *)
(*                                                                         *)
(* A Python str is modelled as a sequence of one-character strings, so     *)
(* that strip() and the "%04d" format are computed, not assumed.  JSON     *)
(* lists of cited ids are modelled as sets: networkx keeps one edge per    *)
(* ordered pair and the order of a list is not observable in the store.    *)
(***************************************************************************)
EXTENDS Integers, Sequences, FiniteSets, TLC

VARIABLES
    file,   \* the persisted document (DATA_FILE)
    prev,   \* the document as it was when the last run started
    last,   \* what the last run did: script, button, arguments, report
    runs,   \* number of script runs so far
    session \* st.session_state of the browser session: the colour maps

vars == <<file, prev, last, runs, session>>

(***************************************************************************)
(* Bounds of the model.                                                    *)
(***************************************************************************)
MaxRuns == 2
MaxRefs == 2
MaxLabels == 21
MaxAuthors == 3

(***************************************************************************)
(* Python values.                                                          *)
(***************************************************************************)
\* Python's None (what st.selectbox returns for an empty option list).
None == <<"None">>

Unknown == <<"U", "n", "k", "n", "o", "w", "n">>

EmptyStr == <<>>

EmptyDict == [x \in {} |-> x]

Whitespace == {" ", "\t", "\n"}

\* dict.get(k, default)
Get(d, k, default) == IF k \in DOMAIN d THEN d[k] ELSE default

\* d[k] = v
Put(d, k, v) == [x \in (DOMAIN d) \cup {k} |-> IF x = k THEN v ELSE d[x]]

\* d.pop(k, None)
Pop(d, k) == [x \in (DOMAIN d) \ {k} |-> d[x]]

\* bool(x) of a str or None
Truthy(x) == x # None /\ x # EmptyStr

RECURSIVE lstrip(_)
lstrip(s) ==
    IF s = <<>> THEN s
    ELSE IF Head(s) \in Whitespace THEN lstrip(Tail(s)) ELSE s

RECURSIVE rstrip(_)
rstrip(s) ==
    IF s = <<>> THEN s
    ELSE IF s[Len(s)] \in Whitespace THEN rstrip(SubSeq(s, 1, Len(s) - 1)) ELSE s

\* str.strip()
strip(s) == rstrip(lstrip(s))

DigitChar(d) == <<"0", "1", "2", "3", "4", "5", "6", "7", "8", "9">>[d + 1]

\* str(n) of a non-negative int
RECURSIVE str_int(_)
str_int(n) ==
    IF n < 10 THEN <<DigitChar(n)>>
    ELSE Append(str_int(n \div 10), DigitChar(n % 10))

RECURSIVE zero_pad(_, _)
zero_pad(s, width) == IF Len(s) >= width THEN s ELSE zero_pad(<<"0">> \o s, width)

\* f"{i:04d}"
format_04d(i) == zero_pad(str_int(i), 4)

(***************************************************************************)
(* The in-memory store: graph, display_names, paper_info, paper_links.     *)
(***************************************************************************)
EmptyStore ==
    [nodes |-> {}, edges |-> {}, display_names |-> EmptyDict,
     paper_info |-> EmptyDict, paper_links |-> EmptyDict]

\* nx.DiGraph.add_edge: creates missing endpoints
add_edge(store, u, v) ==
    [store EXCEPT !.nodes = @ \cup {u, v}, !.edges = @ \cup {<<u, v>>}]

\* nx.DiGraph.remove_edge
remove_edge(store, u, v) == [store EXCEPT !.edges = @ \ {<<u, v>>}]

\* variant of remove_node that forgets the edges pointing at the node
remove_node_outgoing_only(store, n) ==
    [store EXCEPT !.nodes = @ \ {n}, !.edges = {e \in @ : e[1] # n}]

\* nx.DiGraph.remove_node: the node and every edge incident on it
remove_node(store, n) ==
    [store EXCEPT !.nodes = @ \ {n},
                  !.edges = {e \in @ : e[1] # n /\ e[2] # n}]

has_edge(store, u, v) == <<u, v>> \in store.edges

successors(store, n) == {e[2] : e \in {x \in store.edges : x[1] = n}}

predecessors(store, n) == {e[1] : e \in {x \in store.edges : x[2] = n}}

(***************************************************************************)
(* The persisted document.                                                 *)
(***************************************************************************)
NoFile == [exists |-> FALSE, papers |-> EmptyDict, citations |-> EmptyDict]

\* the edges that the loops over data['citations'] insert
CitationEdges(doc) ==
    UNION {{<<p, c>> : c \in doc.citations[p]} : p \in DOMAIN doc.citations}

EdgeEnds(edges) == {e[1] : e \in edges} \cup {e[2] : e \in edges}

\* variant of load_graph_from_json_3 in which a missing title loads as ''
load_graph_from_json_3_blank_title(doc) ==
    IF ~doc.exists THEN EmptyStore
    ELSE [nodes |-> (DOMAIN doc.papers) \cup EdgeEnds(CitationEdges(doc)),
          edges |-> CitationEdges(doc),
          display_names |-> [p \in DOMAIN doc.papers |-> Get(doc.papers[p], "title", EmptyStr)],
          paper_info |-> [p \in DOMAIN doc.papers |->
                             [author |-> Get(doc.papers[p], "author", Unknown),
                              pi |-> Get(doc.papers[p], "pi", Unknown),
                              year |-> Get(doc.papers[p], "year", Unknown)]],
          paper_links |-> [p \in DOMAIN doc.papers |-> Get(doc.papers[p], "url", EmptyStr)]]

\* citagraph3.load_graph_from_json
load_graph_from_json_3(doc) ==
    IF ~doc.exists THEN EmptyStore
    ELSE [nodes |-> (DOMAIN doc.papers) \cup EdgeEnds(CitationEdges(doc)),
          edges |-> CitationEdges(doc),
          display_names |-> [p \in DOMAIN doc.papers |-> Get(doc.papers[p], "title", p)],
          paper_info |-> [p \in DOMAIN doc.papers |->
                             [author |-> Get(doc.papers[p], "author", Unknown),
                              pi |-> Get(doc.papers[p], "pi", Unknown),
                              year |-> Get(doc.papers[p], "year", Unknown)]],
          paper_links |-> [p \in DOMAIN doc.papers |-> Get(doc.papers[p], "url", EmptyStr)]]

\* citagraph2.load_graph_from_json
load_graph_from_json_2(doc) ==
    IF ~doc.exists THEN EmptyStore
    ELSE [nodes |-> (DOMAIN doc.papers) \cup EdgeEnds(CitationEdges(doc)),
          edges |-> CitationEdges(doc),
          display_names |-> [p \in DOMAIN doc.papers |-> Get(doc.papers[p], "title", p)],
          paper_info |-> [p \in DOMAIN doc.papers |->
                             [author |-> Get(doc.papers[p], "author", Unknown),
                              year |-> Get(doc.papers[p], "year", Unknown)]],
          paper_links |-> [p \in DOMAIN doc.papers |-> Get(doc.papers[p], "url", EmptyStr)]]

\* the lookups of save_graph_to_json that raise KeyError
HasRecords(store, n, keys) ==
    /\ n \in DOMAIN store.display_names
    /\ n \in DOMAIN store.paper_info
    /\ keys \subseteq DOMAIN store.paper_info[n]
    /\ n \in DOMAIN store.paper_links

\* variant of PaperEntry3 that writes the four fields of citagraph2 only
PaperEntry3_without_pi(store, n) ==
    [title |-> store.display_names[n],
     author |-> store.paper_info[n].author,
     year |-> store.paper_info[n].year,
     url |-> store.paper_links[n]]

PaperEntry3(store, n) ==
    [title |-> store.display_names[n],
     author |-> store.paper_info[n].author,
     pi |-> store.paper_info[n].pi,
     year |-> store.paper_info[n].year,
     url |-> store.paper_links[n]]

\* citagraph3.save_graph_to_json: the document is built before the file is
\* opened, so a KeyError leaves the file as it was.
save_graph_to_json_3(store, old) ==
    IF \A n \in store.nodes : HasRecords(store, n, {"author", "pi", "year"})
    THEN [raised |-> FALSE, store |-> store,
          file |-> [exists |-> TRUE,
                    papers |-> [n \in store.nodes |-> PaperEntry3(store, n)],
                    citations |-> [n \in store.nodes |-> successors(store, n)]]]
    ELSE [raised |-> TRUE, store |-> store, file |-> old]

PaperEntry2(store, n) ==
    [title |-> store.display_names[n],
     author |-> store.paper_info[n].author,
     year |-> store.paper_info[n].year,
     url |-> store.paper_links[n]]

\* citagraph2.save_graph_to_json
save_graph_to_json_2(store, old) ==
    IF \A n \in store.nodes : HasRecords(store, n, {"author", "year"})
    THEN [raised |-> FALSE, store |-> store,
          file |-> [exists |-> TRUE,
                    papers |-> [n \in store.nodes |-> PaperEntry2(store, n)],
                    citations |-> [n \in store.nodes |-> successors(store, n)]]]
    ELSE [raised |-> TRUE, store |-> store, file |-> old]

\* the store the script app builds from a document
Loaded(app, doc) ==
    IF app = 2 THEN load_graph_from_json_2(doc) ELSE load_graph_from_json_3(doc)

(***************************************************************************)
(* Widgets.                                                                *)
(***************************************************************************)
\* st.selectbox(label, list(graph.nodes)): one of the options, None if none
selectbox(options) == IF options = {} THEN {None} ELSE options

\* st.text_input(label, value=default): what the user typed, else the default
text_input(typed, field, default) == Get(typed, field, default)

(***************************************************************************)
(* citagraph2.py: Add New Paper (lines 243-268).                           *)
(***************************************************************************)
\* the while loop that scans 0001, 0002, ...
RECURSIVE next_free_index(_, _)
next_free_index(i, existing_ids) ==
    IF format_04d(i) \in existing_ids
    THEN next_free_index(i + 1, existing_ids)
    ELSE i

is_blank(new_id_input) == strip(new_id_input) = EmptyStr

\* variant of new_paper_id that numbers a new paper by the size of the store
new_paper_id_by_count(new_id_input, nodes) ==
    IF is_blank(new_id_input)
    THEN format_04d(Cardinality(nodes) + 1)
    ELSE strip(new_id_input)

new_paper_id(new_id_input, nodes) ==
    IF is_blank(new_id_input)
    THEN format_04d(next_free_index(1, nodes))
    ELSE strip(new_id_input)

\* graph.add_node(new_id) and the three dictionary assignments
insert_paper(store, new_id, title, info, url) ==
    [store EXCEPT !.nodes = @ \cup {new_id},
                  !.display_names = Put(@, new_id, title),
                  !.paper_info = Put(@, new_id, info),
                  !.paper_links = Put(@, new_id, url)]

\* what a run that reached save_graph_to_json leaves behind: the file, the
\* store handed to save_graph_to_json, and the st.success or the traceback
Outcome(saved, new_id, target, ok_report) ==
    [file |-> saved.file,
     wrote |-> ~saved.raised,
     saved |-> saved.store,
     report |-> IF saved.raised THEN "exception" ELSE ok_report,
     id |-> new_id, to |-> target, count |-> 0]

\* what a run that never reached save_graph_to_json leaves behind
NoWrite(doc, report, id, target) ==
    [file |-> doc, wrote |-> FALSE, saved |-> EmptyStore, report |-> report,
     id |-> id, to |-> target, count |-> 0]

add_paper_2(doc, new_id_input, form) ==
    LET store == load_graph_from_json_2(doc)
        new_id == new_paper_id(new_id_input, store.nodes)
        added == insert_paper(store, new_id, form.title,
                              [author |-> form.author, year |-> form.year], form.url)
    IN  Outcome(save_graph_to_json_2(added, doc), new_id, None, "success")

(***************************************************************************)
(* citagraph2.py: Edit/Delete Paper (lines 274-290).                       *)
(***************************************************************************)
\* lines 277-280: the four text inputs are assigned into the store on every
\* run; a selected node without records raises KeyError
edit_fields_2(store, selected_id, typed) ==
    IF ~Truthy(selected_id) THEN [raised |-> FALSE, store |-> store]
    ELSE IF selected_id \notin DOMAIN store.display_names
    THEN [raised |-> TRUE, store |-> store]
    ELSE [raised |-> FALSE,
          store |->
            [store EXCEPT
               !.display_names[selected_id] = text_input(typed, "title", @),
               !.paper_info[selected_id] =
                    [author |-> text_input(typed, "author", @.author),
                     year |-> text_input(typed, "year", @.year)],
               !.paper_links[selected_id] = text_input(typed, "url", @)]]

forget_paper(store, id) ==
    [remove_node(store, id) EXCEPT
        !.display_names = Pop(@, id),
        !.paper_info = Pop(@, id),
        !.paper_links = Pop(@, id)]

save_changes_2(doc, selected_id, typed) ==
    LET edited == edit_fields_2(load_graph_from_json_2(doc), selected_id, typed)
    IN  IF ~Truthy(selected_id) THEN NoWrite(doc, "none", selected_id, None)
        ELSE IF edited.raised THEN NoWrite(doc, "exception", selected_id, None)
        ELSE Outcome(save_graph_to_json_2(edited.store, doc), selected_id, None, "success")

delete_paper_2(doc, selected_id, typed) ==
    LET edited == edit_fields_2(load_graph_from_json_2(doc), selected_id, typed)
    IN  IF ~Truthy(selected_id) THEN NoWrite(doc, "none", selected_id, None)
        ELSE IF edited.raised THEN NoWrite(doc, "exception", selected_id, None)
        ELSE Outcome(save_graph_to_json_2(forget_paper(edited.store, selected_id), doc),
                     selected_id, None, "success")

(***************************************************************************)
(* citagraph2.py: Edit Citations (lines 292-308).  The block runs after    *)
(* the Edit/Delete Paper block of the same run.                            *)
(***************************************************************************)
\* variant of add_citation_2 without the has_edge test
add_citation_2_unguarded(doc, selected_id, typed, source_paper, target_paper) ==
    LET edited == edit_fields_2(load_graph_from_json_2(doc), selected_id, typed)
    IN  IF edited.raised THEN NoWrite(doc, "exception", source_paper, target_paper)
        ELSE IF source_paper = None \/ target_paper = None
        THEN NoWrite(doc, "exception", source_paper, target_paper)
        ELSE Outcome(save_graph_to_json_2(
                         add_edge(edited.store, source_paper, target_paper), doc),
                     source_paper, target_paper, "success")

add_citation_2(doc, selected_id, typed, source_paper, target_paper) ==
    LET edited == edit_fields_2(load_graph_from_json_2(doc), selected_id, typed)
    IN  IF edited.raised THEN NoWrite(doc, "exception", source_paper, target_paper)
        ELSE IF has_edge(edited.store, source_paper, target_paper)
        THEN NoWrite(doc, "warning", source_paper, target_paper)
        \* add_edge(None, None) raises ValueError
        ELSE IF source_paper = None \/ target_paper = None
        THEN NoWrite(doc, "exception", source_paper, target_paper)
        ELSE Outcome(save_graph_to_json_2(
                         add_edge(edited.store, source_paper, target_paper), doc),
                     source_paper, target_paper, "success")

\* variant of remove_citation_2 that reports the removal without saving it
remove_citation_2_unsaved(doc, selected_id, typed, source_paper, target_paper) ==
    LET edited == edit_fields_2(load_graph_from_json_2(doc), selected_id, typed)
    IN  IF edited.raised THEN NoWrite(doc, "exception", source_paper, target_paper)
        ELSE IF ~has_edge(edited.store, source_paper, target_paper)
        THEN NoWrite(doc, "warning", source_paper, target_paper)
        ELSE NoWrite(doc, "success", source_paper, target_paper)

remove_citation_2(doc, selected_id, typed, source_paper, target_paper) ==
    LET edited == edit_fields_2(load_graph_from_json_2(doc), selected_id, typed)
    IN  IF edited.raised THEN NoWrite(doc, "exception", source_paper, target_paper)
        ELSE IF ~has_edge(edited.store, source_paper, target_paper)
        THEN NoWrite(doc, "warning", source_paper, target_paper)
        ELSE Outcome(save_graph_to_json_2(
                         remove_edge(edited.store, source_paper, target_paper), doc),
                     source_paper, target_paper, "success")

(***************************************************************************)
(* citagraph3.py: the Crossref importer (lines 28-107).                    *)
(*                                                                         *)
(* A response is [raises, status_code, body]: raises says requests.get     *)
(* raised; body is [json |-> FALSE] when response.json() raises, else      *)
(* [json |-> TRUE, doc |-> d] with d the decoded dictionary.               *)
(***************************************************************************)
NoMetadata == [ok |-> FALSE]

\* the constant prefix of a paper's link, kept in one piece
DoiUrlPrefix == <<"https://doi.org/">>

\* variant of infer_pi that always names the last author
infer_pi_last_author(authors) ==
    IF Len(authors) > 1
    THEN Get(authors[Len(authors)], "family", Unknown)
    ELSE Unknown

\* lines 41-49: the last author, unless an 'additional' author is flagged
\* corresponding; 'Unknown' for fewer than two authors
infer_pi(authors) ==
    IF Len(authors) > 1
    THEN LET last_family == Get(authors[Len(authors)], "family", Unknown)
             flagged == {i \in 1..Len(authors) :
                            /\ Get(authors[i], "sequence", "") = "additional"
                            /\ Get(authors[i], "corresponding", FALSE)}
         IN  IF flagged = {} THEN last_family
             ELSE LET first == CHOOSE i \in flagged : \A j \in flagged : i <= j
                  IN  Get(authors[first], "family", last_family)
    ELSE Unknown

\* line 55; an empty date-parts list raises IndexError
published_year(data) ==
    LET pp == Get(data, "published-print", EmptyDict)
    IN  IF "date-parts" \notin DOMAIN pp THEN [raised |-> FALSE, year |-> EmptyStr]
        ELSE IF pp["date-parts"] = <<>> \/ pp["date-parts"][1] = <<>>
        THEN [raised |-> TRUE, year |-> EmptyStr]
        ELSE [raised |-> FALSE, year |-> str_int(pp["date-parts"][1][1])]

IsTruthyDoi(ref) == Truthy(Get(ref, "DOI", EmptyStr))

reference_dois(data) ==
    LET refs == SelectSeq(Get(data, "reference", <<>>), IsTruthyDoi)
    IN  [i \in 1..Len(refs) |-> refs[i].DOI]

all_authors(authors) ==
    [i \in 1..Len(authors) |->
        Get(authors[i], "given", EmptyStr) \o <<" ">> \o Get(authors[i], "family", EmptyStr)]

fetch_paper_metadata(doi, response) ==
    IF response.raises THEN NoMetadata
    ELSE IF response.status_code # 200 THEN NoMetadata
    ELSE IF ~response.body.json THEN NoMetadata
    ELSE IF "message" \notin DOMAIN response.body.doc THEN NoMetadata
    ELSE LET data == response.body.doc.message
             authors == Get(data, "author", <<>>)
             titles == Get(data, "title", <<EmptyStr>>)
             year == published_year(data)
         IN  IF titles = <<>> \/ year.raised THEN NoMetadata
             ELSE [ok |-> TRUE,
                   title |-> titles[1],
                   author |-> IF authors # <<>>
                              THEN Get(authors[1], "family", Unknown)
                              ELSE Unknown,
                   pi |-> infer_pi(authors),
                   year |-> year.year,
                   url |-> DoiUrlPrefix \o doi,
                   references |-> reference_dois(data),
                   all_authors |-> all_authors(authors)]

\* variant of link_references that counts the edges it inserted
link_references_counting_edges(store, paper_id, references) ==
    LET existing_papers == store.nodes
        found == {i \in 1..Len(references) : references[i] \in existing_papers}
        added == {<<paper_id, references[i]>> : i \in found} \ store.edges
    IN  [store |-> [store EXCEPT !.edges = @ \cup added],
         citations_found |-> Cardinality(added)]

\* lines 93-99: existing_papers is read after the paper itself was added
link_references(store, paper_id, references) ==
    LET existing_papers == store.nodes
        found == {i \in 1..Len(references) : references[i] \in existing_papers}
    IN  [store |-> [store EXCEPT
                       !.edges = @ \cup {<<paper_id, references[i]>> : i \in found}],
         citations_found |-> Cardinality(found)]

add_paper_with_references(store, doi, response) ==
    LET metadata == fetch_paper_metadata(doi, response)
    IN  IF ~metadata.ok THEN [ok |-> FALSE, store |-> store, citations_found |-> 0]
        ELSE LET \* the text input is created by this run, so it holds its default
                 corrected_pi == text_input(EmptyDict, "pi", metadata.pi)
                 added == insert_paper(store, doi, metadata.title,
                              [author |-> metadata.author,
                               pi |-> IF corrected_pi # metadata.pi
                                      THEN corrected_pi ELSE metadata.pi,
                               year |-> metadata.year,
                               all_authors |-> metadata.all_authors],
                              metadata.url)
                 linked == link_references(added, doi, metadata.references)
             IN  [ok |-> TRUE, store |-> linked.store,
                  citations_found |-> linked.citations_found]

\* variant of fetch_and_add_3 that saves whatever the importer returned
fetch_and_add_3_always_saves(doc, paper_doi, response) ==
    IF ~Truthy(paper_doi) THEN NoWrite(doc, "warning", paper_doi, None)
    ELSE LET imported == add_paper_with_references(
                             load_graph_from_json_3(doc), paper_doi, response)
         IN  [Outcome(save_graph_to_json_3(imported.store, doc),
                      paper_doi, None, IF imported.ok THEN "success" ELSE "error")
              EXCEPT !.count = imported.citations_found]

\* lines 466-477: the Fetch and Add Paper button
fetch_and_add_3(doc, paper_doi, response) ==
    IF ~Truthy(paper_doi) THEN NoWrite(doc, "warning", paper_doi, None)
    ELSE LET imported == add_paper_with_references(
                             load_graph_from_json_3(doc), paper_doi, response)
         IN  IF imported.ok
             THEN [Outcome(save_graph_to_json_3(imported.store, doc),
                           paper_doi, None, "success")
                   EXCEPT !.count = imported.citations_found]
             ELSE NoWrite(doc, "error", paper_doi, None)

(***************************************************************************)
(* citagraph3.py: Edit/Delete Paper (lines 480-505).                       *)
(***************************************************************************)
edit_fields_3(store, selected_id, typed) ==
    IF store.nodes = {} \/ ~Truthy(selected_id) THEN [raised |-> FALSE, store |-> store]
    ELSE IF selected_id \notin DOMAIN store.display_names
    THEN [raised |-> TRUE, store |-> store]
    ELSE [raised |-> FALSE,
          store |->
            [store EXCEPT
               !.display_names[selected_id] = text_input(typed, "title", @),
               !.paper_info[selected_id] =
                    [author |-> text_input(typed, "author", @.author),
                     pi |-> text_input(typed, "pi", Get(@, "pi", Unknown)),
                     year |-> text_input(typed, "year", @.year)],
               !.paper_links[selected_id] = text_input(typed, "url", @)]]

\* variant of save_changes_3 whose button sits outside the two tests
save_changes_3_unguarded(doc, selected_id, typed) ==
    LET edited == edit_fields_3(load_graph_from_json_3(doc), selected_id, typed)
    IN  IF edited.raised THEN NoWrite(doc, "exception", selected_id, None)
        ELSE Outcome(save_graph_to_json_3(edited.store, doc), selected_id, None, "success")

save_changes_3(doc, selected_id, typed) ==
    LET store == load_graph_from_json_3(doc)
        edited == edit_fields_3(store, selected_id, typed)
    IN  IF store.nodes = {} THEN NoWrite(doc, "info", selected_id, None)
        ELSE IF ~Truthy(selected_id) THEN NoWrite(doc, "none", selected_id, None)
        ELSE IF edited.raised THEN NoWrite(doc, "exception", selected_id, None)
        ELSE Outcome(save_graph_to_json_3(edited.store, doc), selected_id, None, "success")

delete_paper_3(doc, selected_id, typed) ==
    LET store == load_graph_from_json_3(doc)
        edited == edit_fields_3(store, selected_id, typed)
    IN  IF store.nodes = {} THEN NoWrite(doc, "info", selected_id, None)
        ELSE IF ~Truthy(selected_id) THEN NoWrite(doc, "none", selected_id, None)
        ELSE IF edited.raised THEN NoWrite(doc, "exception", selected_id, None)
        ELSE Outcome(save_graph_to_json_3(forget_paper(edited.store, selected_id), doc),
                     selected_id, None, "success")

(***************************************************************************)
(* Inputs of a run, drawn from small sets.                                 *)
(***************************************************************************)
D1 == <<"d", "1">>

D2 == <<"d", "2">>

\* what the user may type into "Paper ID (leave blank to auto-assign)"
IdInputs == {<<>>, <<" ">>, <<"0", "0", "0", "4">>, <<" ", "d", "1", " ">>}

\* what the user may type into Title, Author, Year, URL of Add New Paper
Forms ==
    {[title |-> <<"A">>, author |-> <<"X">>, year |-> <<"2", "0", "0", "1">>, url |-> <<>>],
     [title |-> <<"B">>, author |-> <<"Y">>, year |-> <<"n", "/", "a">>, url |-> <<"u">>]}

\* what the user may type into "Enter Paper DOI"
DoiInputs == {<<>>, D1, D2}

EditTexts == {<<"E">>}

EditFields2 == {"title", "author", "year", "url"}

EditFields3 == {"title", "author", "pi", "year", "url"}

\* the Edit fields the user has typed into and not saved (at most one here)
TypedEdits(fields) ==
    {EmptyDict} \cup {[f \in {field} |-> text] : field \in fields, text \in EditTexts}

\* what may sit unsaved in the Edit fields when another button is pressed
PendingEdits == TypedEdits({"title"})

\* message.reference lists: every list of up to MaxRefs entries that carry a
\* DOI (repeats included), and one list with an entry that carries none
RefEntries == {[DOI |-> D1], [DOI |-> D2]}

RefLists ==
    UNION {[1..n -> RefEntries] : n \in 0..MaxRefs}
    \cup {<<[key |-> "ref"], [DOI |-> D1]>>}

TwoAuthors ==
    <<[family |-> <<"X">>, given |-> <<"x">>, sequence |-> "first"],
      [family |-> <<"Z">>, given |-> <<"z">>, sequence |-> "additional"]>>

Message(authors, refs) ==
    ("title" :> <<(<<"T">>)>>) @@ ("author" :> authors)
    @@ ("published-print" :> ("date-parts" :> <<(<<1999>>)>>))
    @@ ("reference" :> refs)

Response200(message) ==
    [raises |-> FALSE, status_code |-> 200,
     body |-> [json |-> TRUE, doc |-> [message |-> message]]]

FailedResponses ==
    {[raises |-> TRUE, status_code |-> 0, body |-> [json |-> FALSE]],
     [raises |-> FALSE, status_code |-> 404, body |-> [json |-> FALSE]],
     [raises |-> FALSE, status_code |-> 200, body |-> [json |-> FALSE]],
     [raises |-> FALSE, status_code |-> 200, body |-> [json |-> TRUE, doc |-> EmptyDict]],
     Response200("title" :> <<>>)}

GoodResponses ==
    {Response200(Message(TwoAuthors, refs)) : refs \in RefLists}
    \cup {Response200(EmptyDict)}

Responses == FailedResponses \cup GoodResponses

NoResponse == [raises |-> TRUE, status_code |-> 0, body |-> [json |-> FALSE]]

(***************************************************************************)
(* The state machine: one action per button.                               *)
(***************************************************************************)
Start ==
    [app |-> 0, op |-> "start", sel |-> None, arg |-> None, id |-> None, to |-> None,
     report |-> "none", wrote |-> FALSE, saved |-> EmptyStore, count |-> 0]

\* Documents the two scripts write, built by running their handlers from a
\* missing file: the papers 0004 and 0001 of citagraph2, 0001 citing 0004,
\* and two imported papers of citagraph3 of which one cites the other.
SeedLibrary ==
    LET a == add_paper_2(NoFile, <<"0", "0", "0", "4">>,
                 [title |-> <<"A">>, author |-> <<"X">>,
                  year |-> <<"2", "0", "0", "1">>, url |-> <<>>]).file
        b == add_paper_2(a, <<>>,
                 [title |-> <<"B">>, author |-> <<"Y">>,
                  year |-> <<"n", "/", "a">>, url |-> <<"u">>]).file
    IN  add_citation_2(b, None, EmptyDict, format_04d(1), format_04d(4)).file

SeedImported ==
    LET a == fetch_and_add_3(NoFile, D2, Response200(Message(TwoAuthors, <<>>))).file
    IN  fetch_and_add_3(a, D1, Response200(Message(TwoAuthors, <<[DOI |-> D2]>>))).file

SeedFiles == {NoFile, SeedLibrary, SeedImported}

\* st.session_state before anything was drawn; author_color_cycle is the
\* position of the module-level iterator of citagraph2
NewSession ==
    [author_colors |-> EmptyDict, author_color_cycle |-> 0,
     first_author_colors |-> EmptyDict, pi_colors |-> EmptyDict]

\* Spec and SpecAnyFile follow the file; the graph and the table drawn at the
\* end of a run do not touch it, and the colour maps stay as they are
Init ==
    /\ file \in SeedFiles
    /\ prev = file
    /\ last = Start
    /\ runs = 0
    /\ session = NewSession

\* a button can be pressed on a page that was rendered from the file as it
\* is; the model stops after MaxRuns button presses
CanRun == last = Start /\ runs < MaxRuns

\* Streamlit runs the script again (line 459 of citagraph3, line 239 of
\* citagraph2): the store is rebuilt from the file and the messages of the
\* previous run are gone
Rerun ==
    /\ last # Start
    /\ prev' = file
    /\ last' = Start
    /\ UNCHANGED <<file, runs, session>>

\* a run of script app with button op pressed: sel is the paper selected in
\* "Edit/Delete Paper", arg what the user typed (or the service answered)
Run(app, op, sel, arg, r) ==
    /\ file' = r.file
    /\ prev' = file
    /\ last' = [app |-> app, op |-> op, sel |-> sel, arg |-> arg,
                id |-> r.id, to |-> r.to,
                report |-> r.report, wrote |-> r.wrote, saved |-> r.saved,
                count |-> r.count]
    /\ runs' = runs + 1
    /\ UNCHANGED session

Nodes2 == load_graph_from_json_2(file).nodes

Nodes3 == load_graph_from_json_3(file).nodes

AddPaper2 ==
    /\ CanRun
    /\ \E new_id_input \in IdInputs, form \in Forms :
        \E r \in {add_paper_2(file, new_id_input, form)} :
            Run(2, "addPaper", None, new_id_input, r)

SaveChanges2 ==
    /\ CanRun
    /\ \E selected_id \in selectbox(Nodes2), typed \in TypedEdits(EditFields2) :
        \E r \in {save_changes_2(file, selected_id, typed)} :
            Run(2, "editPaper", selected_id, typed, r)

DeletePaper2 ==
    /\ CanRun
    /\ \E selected_id \in selectbox(Nodes2), typed \in PendingEdits :
        \E r \in {delete_paper_2(file, selected_id, typed)} :
            Run(2, "deletePaper", selected_id, typed, r)

AddCitation2 ==
    /\ CanRun
    /\ \E selected_id \in selectbox(Nodes2), typed \in PendingEdits,
          source_paper \in selectbox(Nodes2), target_paper \in selectbox(Nodes2) :
        \E r \in {add_citation_2(file, selected_id, typed, source_paper, target_paper)} :
            Run(2, "addCitation", selected_id, typed, r)

RemoveCitation2 ==
    /\ CanRun
    /\ \E selected_id \in selectbox(Nodes2), typed \in PendingEdits,
          source_paper \in selectbox(Nodes2), target_paper \in selectbox(Nodes2) :
        \E r \in {remove_citation_2(file, selected_id, typed, source_paper, target_paper)} :
            Run(2, "removeCitation", selected_id, typed, r)

\* with a blank DOI no request is sent, so there is no response to draw
FetchAndAdd3 ==
    /\ CanRun
    /\ \E paper_doi \in DoiInputs :
        \E response \in IF Truthy(paper_doi) THEN Responses ELSE {NoResponse} :
            \E r \in {fetch_and_add_3(file, paper_doi, response)} :
                Run(3, "importPaper", None, response, r)

SaveChanges3 ==
    /\ CanRun
    /\ \E selected_id \in selectbox(Nodes3), typed \in TypedEdits(EditFields3) :
        \E r \in {save_changes_3(file, selected_id, typed)} :
            Run(3, "editPaper", selected_id, typed, r)

DeletePaper3 ==
    /\ CanRun
    /\ \E selected_id \in selectbox(Nodes3), typed \in PendingEdits :
        \E r \in {delete_paper_3(file, selected_id, typed)} :
            Run(3, "deletePaper", selected_id, typed, r)

Next ==
    \/ Rerun
    \/ AddPaper2
    \/ SaveChanges2
    \/ DeletePaper2
    \/ AddCitation2
    \/ RemoveCitation2
    \/ FetchAndAdd3
    \/ SaveChanges3
    \/ DeletePaper3

Spec == Init /\ [][Next]_vars

(***************************************************************************)
(* A second specification: the same scripts started on any document that   *)
(* has the shape {papers: {id: record}, citations: {id: [id]}}, whether or *)
(* not one of the scripts wrote it.                                        *)
(***************************************************************************)
PaperRecord ==
    [title |-> <<"A">>, author |-> <<"X">>, year |-> <<"2", "0", "0", "1">>, url |-> <<>>]

\* 0001 cites d1, and d1 has no entry under papers
CitesUnlistedPaper ==
    [exists |-> TRUE,
     papers |-> (format_04d(1) :> PaperRecord),
     citations |-> (format_04d(1) :> {D1})]

\* d2, which has no entry under papers, cites 0001
CitedByUnlistedPaper ==
    [exists |-> TRUE,
     papers |-> (format_04d(1) :> PaperRecord),
     citations |-> (D2 :> {format_04d(1)})]

SchemaValidFiles == SeedFiles \cup {CitesUnlistedPaper, CitedByUnlistedPaper}

InitAnyFile ==
    /\ file \in SchemaValidFiles
    /\ prev = file
    /\ last = Start
    /\ runs = 0
    /\ session = NewSession

SpecAnyFile == InitAnyFile /\ [][Next]_vars

(***************************************************************************)
(* A sixth specification: the Save Changes buttons of both scripts on      *)
(* documents whose one paper lacks some of its fields.                     *)
(***************************************************************************)
FullRecord ==
    [title |-> <<"A">>, author |-> <<"X">>, pi |-> <<"P">>,
     year |-> <<"2", "0", "0", "1">>, url |-> <<"u">>]

\* paper 0001 with any one or more of its five fields, and no citations
SparseFiles ==
    {[exists |-> TRUE,
      papers |-> (format_04d(1) :> [k \in keys |-> FullRecord[k]]),
      citations |-> EmptyDict] : keys \in (SUBSET EditFields3) \ {{}}}

InitLoad ==
    /\ file \in SparseFiles
    /\ prev = file
    /\ last = Start
    /\ runs = 0
    /\ session = NewSession

NextLoad ==
    \/ Rerun
    \/ SaveChanges2
    \/ SaveChanges3

SpecLoad == InitLoad /\ [][NextLoad]_vars

(***************************************************************************)
(* The page: decade labels and colours, the Paper Library table and its    *)
(* filters.  Nothing here writes the file.                                 *)
(***************************************************************************)
Digits == {"0", "1", "2", "3", "4", "5", "6", "7", "8", "9"}

DigitValue(c) == CHOOSE d \in 0..9 : DigitChar(d) = c

RECURSIVE digits_value(_)
digits_value(s) ==
    IF s = <<>> THEN 0
    ELSE 10 * digits_value(SubSeq(s, 1, Len(s) - 1)) + DigitValue(s[Len(s)])

\* int(s) of a str: surrounding whitespace and one sign are accepted
\* (digit grouping with "_" is not in the alphabet used here)
int_of_str(s) ==
    LET t == strip(s)
        signed == t # <<>> /\ t[1] \in {"+", "-"}
        body == IF signed THEN Tail(t) ELSE t
    IN  IF body = <<>> \/ \E i \in 1..Len(body) : body[i] \notin Digits
        THEN [raised |-> TRUE, value |-> 0]
        ELSE [raised |-> FALSE,
              value |-> IF signed /\ t[1] = "-"
                        THEN 0 - digits_value(body) ELSE digits_value(body)]

\* str.isdigit()
isdigit(s) == s # <<>> /\ \A i \in 1..Len(s) : s[i] \in Digits

\* str(n) of an int
str_of_int(n) == IF n < 0 THEN <<"-">> \o str_int(0 - n) ELSE str_int(n)

\* (int(year) // 10) * 10
decade_of(year) == (int_of_str(year).value \div 10) * 10

\* f"{decade}s"
decade_text(decade) == str_of_int(decade) \o <<"s">>

\* citagraph3.draw_graph_plotly, lines 293-299: try int(year), except
decade_label_try(year) ==
    IF int_of_str(year).raised THEN Unknown ELSE decade_text(decade_of(year))

\* citagraph2 line 145, and the Decade column of both tables (citagraph2
\* line 337, citagraph3 line 547): only if str(year).isdigit()
decade_label_isdigit(year) ==
    IF isdigit(year) THEN decade_text(decade_of(year)) ELSE Unknown

\* f'rgb({r}, {g}, {b})'
rgb_format(rgb) ==
    <<"r", "g", "b", "(">> \o str_int(rgb[1]) \o <<",", " ">>
    \o str_int(rgb[2]) \o <<",", " ">> \o str_int(rgb[3]) \o <<")">>

Gray2 == rgb_format(<<211, 211, 211>>)

Gray3 == rgb_format(<<128, 128, 128>>)

\* color_map of citagraph2.get_decade_color
DecadeColors2 ==
    (1980 :> rgb_format(<<255, 99, 71>>)) @@ (1990 :> rgb_format(<<34, 139, 34>>))
    @@ (2000 :> rgb_format(<<30, 144, 255>>)) @@ (2010 :> rgb_format(<<255, 215, 0>>))

\* color_map of citagraph3.get_decade_color
DecadeColors3 ==
    (1960 :> rgb_format(<<255, 0, 0>>)) @@ (1970 :> rgb_format(<<255, 127, 0>>))
    @@ (1980 :> rgb_format(<<255, 255, 0>>)) @@ (1990 :> rgb_format(<<0, 255, 0>>))
    @@ (2000 :> rgb_format(<<0, 0, 255>>)) @@ (2010 :> rgb_format(<<75, 0, 130>>))
    @@ (2020 :> rgb_format(<<148, 0, 211>>)) @@ (2030 :> rgb_format(<<200, 0, 255>>))

get_decade_color_2(year) ==
    IF int_of_str(year).raised THEN Gray2 ELSE Get(DecadeColors2, decade_of(year), Gray2)

get_decade_color_3(year) ==
    IF int_of_str(year).raised THEN Gray3 ELSE Get(DecadeColors3, decade_of(year), Gray3)

\* paper_info.get(node, {}).get('year', 'Unknown')
year_of(store, node) == Get(Get(store.paper_info, node, EmptyDict), "year", Unknown)

\* the legend of the graph coloured by decade
\* (app 2: color_groups, lines 142-154; app 3: decade_groups, lines 290-306):
\* label -> the nodes drawn under it and the colour of the group, which is
\* the colour of the node that opened the group.  nodes is the sequence
\* graph.nodes() iterates.
decade_groups(app, store, nodes) ==
    LET label(n) == IF app = 2 THEN decade_label_isdigit(year_of(store, n))
                    ELSE decade_label_try(year_of(store, n))
        color(n) == IF app = 2 THEN get_decade_color_2(year_of(store, n))
                    ELSE get_decade_color_3(year_of(store, n))
        labels == {label(nodes[i]) : i \in 1..Len(nodes)}
        opener(l) == CHOOSE i \in 1..Len(nodes) :
                         /\ label(nodes[i]) = l
                         /\ \A j \in 1..(i - 1) : label(nodes[j]) # l
    IN  [l \in labels |->
            [nodes |-> {nodes[i] : i \in {j \in 1..Len(nodes) : label(nodes[j]) = l}},
             color |-> color(nodes[opener(l)])]]

UpperCase ==
    <<"A", "B", "C", "D", "E", "F", "G", "H", "I", "J", "K", "L", "M",
      "N", "O", "P", "Q", "R", "S", "T", "U", "V", "W", "X", "Y", "Z">>

LowerCase ==
    <<"a", "b", "c", "d", "e", "f", "g", "h", "i", "j", "k", "l", "m",
      "n", "o", "p", "q", "r", "s", "t", "u", "v", "w", "x", "y", "z">>

\* re.IGNORECASE compares characters by their lower case
lower(c) ==
    IF \E i \in 1..Len(UpperCase) : UpperCase[i] = c
    THEN LowerCase[CHOOSE i \in 1..Len(UpperCase) : UpperCase[i] = c]
    ELSE c

\* re.compile(query) raises for an unclosed group
regex_error(query) ==
    Cardinality({i \in 1..Len(query) : query[i] = "("})
        # Cardinality({i \in 1..Len(query) : query[i] = ")"})

\* Series.str.contains(query, case=False): query is a regular expression;
\* of its syntax, "." (any character but a newline) is modelled
str_contains(value, query) ==
    \E start \in 0..(Len(value) - Len(query)) :
        \A i \in 1..Len(query) :
            \/ query[i] = "." /\ value[start + i] # "\n"
            \/ query[i] # "." /\ lower(query[i]) = lower(value[start + i])

\* one row of papers_data with its decade column
table_row(app, store, node) ==
    LET year == year_of(store, node)
        common == [id |-> node,
                   title |-> Get(store.display_names, node, Unknown),
                   author |-> Get(Get(store.paper_info, node, EmptyDict), "author", Unknown),
                   year |-> year,
                   decade |-> decade_label_isdigit(year)]
    IN  IF app = 2 THEN common
        ELSE common @@
             [pi |-> Get(Get(store.paper_info, node, EmptyDict), "pi", Unknown)]

\* the filter loop of filter_papers (citagraph2) and the five ifs of
\* citagraph3: every non-empty query keeps the rows it matches
filter_papers(rows, filters) ==
    LET used == {f \in DOMAIN filters : Truthy(filters[f])}
        keep(row) == \A f \in used : str_contains(row[f], filters[f])
    IN  IF \E f \in used : regex_error(filters[f])
        THEN [raised |-> TRUE, rows |-> <<>>]
        ELSE [raised |-> FALSE, rows |-> SelectSeq(rows, keep)]

\* a run in which no button is pressed and the graph is coloured by decade:
\* the legend of the graph, then the table
render_decade(app, doc, nodes, filters) ==
    LET store == Loaded(app, doc)
        rows == [i \in 1..Len(nodes) |-> table_row(app, store, nodes[i])]
        filtered == filter_papers(rows, filters)
    IN  [app |-> app, op |-> "render",
         groups |-> decade_groups(app, store, nodes),
         rows |-> rows, filters |-> filters,
         raised |-> filtered.raised, shown |-> filtered.rows]

(***************************************************************************)
(* A third specification: pages rendered (no button pressed, graph         *)
(* coloured by decade) from libraries of two papers with any two of the    *)
(* year texts below, with any filter texts typed over the table.           *)
(***************************************************************************)
\* what Year may hold: it is free text in Add New Paper and Edit Year
YearInputs ==
    {<<"1", "9", "9", "4">>, <<"n", "/", "a">>, <<>>, <<" ", "1", "9", "9", "4">>,
     <<"-", "5">>, <<"2", "0", "2", "0">>, <<"1", "9", "5", "0">>}

Graph == <<"G", "r", "a", "p", "h">>

Tree == <<"T", "r", "e", "e">>

\* the documents Add Paper writes for two papers with these years
ViewFiles ==
    {add_paper_2(
         add_paper_2(NoFile, <<>>,
             [title |-> Graph, author |-> <<"X">>, year |-> y1, url |-> <<>>]).file,
         <<>>,
         [title |-> Tree, author |-> <<"Y">>, year |-> y2, url |-> <<"u">>]).file :
     y1 \in YearInputs, y2 \in YearInputs}

\* texts typed into the filter boxes: a title in another case, a dot, a year,
\* an opening bracket, a decade suffix
TitleQueries == {<<>>, <<"g", "R", "A", "P", "H">>, <<".">>}

YearQueries == {<<>>, <<"2", "0", "2", "0">>, <<"(">>}

DecadeQueries == {<<>>, <<"0", "S">>}

Filters2 ==
    {[title |-> t, author |-> <<>>, year |-> y, decade |-> d] :
        t \in TitleQueries, y \in YearQueries, d \in DecadeQueries}

Filters3 ==
    {[title |-> t, author |-> <<>>, pi |-> <<>>, year |-> y, decade |-> d] :
        t \in TitleQueries, y \in YearQueries, d \in DecadeQueries}

\* the orders in which graph.nodes() may iterate a set of nodes
Orderings(nodes) ==
    {f \in [1..Cardinality(nodes) -> nodes] :
        \A i, j \in 1..Cardinality(nodes) : i # j => f[i] # f[j]}

InitView ==
    /\ file \in ViewFiles
    /\ prev = file
    /\ last = Start
    /\ runs = 0
    /\ session = NewSession

\* a run that only renders: the file and the colour maps stay
Render(view) ==
    /\ last' = view
    /\ prev' = file
    /\ runs' = runs + 1
    /\ UNCHANGED <<file, session>>

RenderDecade2 ==
    /\ CanRun
    /\ \E nodes \in Orderings(Nodes2), filters \in Filters2 :
        Render(render_decade(2, file, nodes, filters))

RenderDecade3 ==
    /\ CanRun
    /\ \E nodes \in Orderings(Nodes3), filters \in Filters3 :
        Render(render_decade(3, file, nodes, filters))

NextView ==
    \/ Rerun
    \/ RenderDecade2
    \/ RenderDecade3

SpecView == InitView /\ [][NextView]_vars

(***************************************************************************)
(* Author colours: get_author_color of both scripts on the colour map that *)
(* st.session_state keeps, and a fourth specification that calls them.     *)
(***************************************************************************)
\* AUTHOR_COLORS of citagraph3, by channel
PaletteChannels ==
    << <<255, 99, 71>>, <<34, 139, 34>>, <<30, 144, 255>>, <<255, 215, 0>>,
       <<138, 43, 226>>, <<255, 105, 180>>, <<0, 128, 128>>, <<255, 140, 0>>,
       <<147, 112, 219>>, <<0, 100, 0>>, <<205, 92, 92>>, <<70, 130, 180>>,
       <<218, 112, 214>>, <<0, 139, 139>>, <<255, 69, 0>>, <<72, 61, 139>>,
       <<184, 134, 11>>, <<139, 69, 19>>, <<47, 79, 79>>, <<199, 21, 133>> >>

AUTHOR_COLORS == [i \in 1..Len(PaletteChannels) |-> rgb_format(PaletteChannels[i])]

\* the list given to itertools.cycle in citagraph2.draw_graph_plotly
CycleChannels ==
    << <<255, 99, 71>>, <<34, 139, 34>>, <<30, 144, 255>>, <<255, 215, 0>>,
       <<255, 105, 180>>, <<75, 0, 130>>, <<255, 69, 0>>, <<0, 128, 128>>,
       <<138, 43, 226>>, <<255, 140, 0>> >>

author_color_cycle == [i \in 1..Len(CycleChannels) |-> rgb_format(CycleChannels[i])]

\* set(color_map.values())
Values(d) == {d[k] : k \in DOMAIN d}

\* str.split(sep) for a one-character sep
RECURSIVE split(_, _)
split(s, sep) ==
    IF \A i \in 1..Len(s) : s[i] # sep THEN <<s>>
    ELSE LET at == CHOOSE i \in 1..Len(s) :
                       s[i] = sep /\ \A j \in 1..(i - 1) : s[j] # sep
         IN  <<SubSeq(s, 1, at - 1)>> \o split(SubSeq(s, at + 1, Len(s)), sep)

\* [int(x) for x in base_color[4:-1].split(',')]
rgb_values(color) ==
    LET parts == split(SubSeq(color, 5, Len(color) - 1), ",")
    IN  [i \in 1..Len(parts) |-> int_of_str(parts[i]).value]

\* variant of modified_rgb that lets a channel grow past 255
modified_rgb_unbounded(values, size) ==
    [i \in 1..Len(values) |-> values[i] + 30 * (size \div Len(AUTHOR_COLORS))]

\* lines 203-206: every channel moved by 30 per full round of the palette
modified_rgb(values, size) ==
    [i \in 1..Len(values) |-> (values[i] + 30 * (size \div Len(AUTHOR_COLORS))) % 256]

\* citagraph3.get_author_color: the colour returned and the map afterwards
get_author_color_3(author, color_map) ==
    IF author \in DOMAIN color_map
    THEN [color |-> color_map[author], color_map |-> color_map]
    ELSE LET used_colors == Values(color_map)
             free == {i \in 1..Len(AUTHOR_COLORS) : AUTHOR_COLORS[i] \notin used_colors}
             size == Cardinality(DOMAIN color_map)
             color ==
                IF free # {}
                THEN AUTHOR_COLORS[CHOOSE i \in free : \A j \in free : i <= j]
                ELSE rgb_format(modified_rgb(
                         rgb_values(AUTHOR_COLORS[(size % Len(AUTHOR_COLORS)) + 1]), size))
         IN  [color |-> color, color_map |-> Put(color_map, author, color)]

\* citagraph2.get_author_color: cycle is how many colours the iterator
\* author_color_cycle has handed out since draw_graph_plotly created it
get_author_color_2(author, color_map, cycle) ==
    IF author \in DOMAIN color_map
    THEN [color |-> color_map[author], color_map |-> color_map, cycle |-> cycle]
    ELSE LET color == author_color_cycle[(cycle % Len(author_color_cycle)) + 1]
         IN  [color |-> color, color_map |-> Put(color_map, author, color),
              cycle |-> cycle + 1]

\* author names: the k-th name a session meets
Label(k) == <<"A">> \o str_int(k)

\* the names a call may carry: one the map knows, or the next new one
CallLabels(color_map, bound) ==
    LET size == Cardinality(DOMAIN color_map)
    IN  DOMAIN color_map \cup (IF size < bound THEN {Label(size + 1)} ELSE {})

\* citagraph2 meets one name more than its cycle has colours
MaxLabels2 == Len(author_color_cycle) + 1

\* a browser session that has just opened one of the two scripts
Opened(app) == [app |-> app, op |-> "open"]

InitPalette ==
    /\ file = NoFile
    /\ prev = NoFile
    /\ runs = 0
    /\ session = NewSession
    /\ last \in {Opened(2), Opened(3)}

\* what a call leaves to look at: the name, the map before, the colour
Called(app, author, color_map, color) ==
    [app |-> app, op |-> "get_author_color", author |-> author,
     before |-> color_map, color |-> color]

\* citagraph2 lines 108-114: draw_graph_plotly starts with a new iterator
NewDraw2 ==
    /\ last.app = 2
    /\ runs < MaxRuns
    /\ session.author_color_cycle # 0
    /\ session' = [session EXCEPT !.author_color_cycle = 0]
    /\ last' = [app |-> 2, op |-> "draw_graph_plotly"]
    /\ runs' = runs + 1
    /\ UNCHANGED <<file, prev>>

GetAuthorColor2 ==
    /\ last.app = 2
    /\ \E author \in CallLabels(session.author_colors, MaxLabels2) :
        \E r \in {get_author_color_2(author, session.author_colors,
                                     session.author_color_cycle)} :
            /\ session' = [session EXCEPT !.author_colors = r.color_map,
                                          !.author_color_cycle = r.cycle]
            /\ last' = Called(2, author, session.author_colors, r.color)
    /\ UNCHANGED <<file, prev, runs>>

GetAuthorColor3 ==
    /\ last.app = 3
    /\ \E author \in CallLabels(session.first_author_colors, MaxLabels) :
        \E r \in {get_author_color_3(author, session.first_author_colors)} :
            /\ session' = [session EXCEPT !.first_author_colors = r.color_map]
            /\ last' = Called(3, author, session.first_author_colors, r.color)
    /\ UNCHANGED <<file, prev, runs>>

NextPalette ==
    \/ NewDraw2
    \/ GetAuthorColor2
    \/ GetAuthorColor3

SpecPalette == InitPalette /\ [][NextPalette]_vars

(***************************************************************************)
(* A fifth specification: the Fetch and Add Paper button of citagraph3 on  *)
(* responses whose message.author varies.                                  *)
(***************************************************************************)
\* entries of message.author as Crossref sends them: family, given, sequence
\* and, for some, corresponding
AuthorEntries ==
    {[family |-> <<"X">>, given |-> <<"x">>, sequence |-> "first"],
     [family |-> <<"W">>, given |-> <<"w">>, sequence |-> "first", corresponding |-> TRUE],
     [family |-> <<"Y">>, given |-> <<"y">>, sequence |-> "additional"],
     [family |-> <<"Z">>, given |-> <<"z">>, sequence |-> "additional", corresponding |-> TRUE],
     [given |-> <<"q">>, sequence |-> "additional", corresponding |-> TRUE],
     [given |-> <<"g">>, sequence |-> "additional"]}

AuthorLists == UNION {[1..n -> AuthorEntries] : n \in 0..MaxAuthors}

FetchAuthors3 ==
    /\ CanRun
    /\ \E authors \in AuthorLists :
        \E response \in {Response200(Message(authors, <<>>))} :
            \E r \in {fetch_and_add_3(file, D1, response)} :
                Run(3, "importPaper", None, response, r)

InitFetch ==
    /\ file = NoFile
    /\ prev = file
    /\ last = Start
    /\ runs = 0
    /\ session = NewSession

NextFetch ==
    \/ Rerun
    \/ FetchAuthors3

SpecFetch == InitFetch /\ [][NextFetch]_vars

(***************************************************************************)
(* A seventh specification: one browser session of citagraph3 whose runs   *)
(* end with the graph coloured by First Author or Principal Investigator.  *)
(* graph.nodes() iterates in insertion order, which the file keeps; here   *)
(* that order travels in last.nodes.                                       *)
(***************************************************************************)
ColorModes == {"First Author", "Principal Investigator"}

\* lines 362-363: paper_info.get(node, {}).get('author' or 'pi', 'Unknown')
label_of(store, node, color_mode) ==
    Get(Get(store.paper_info, node, EmptyDict),
        IF color_mode = "First Author" THEN "author" ELSE "pi", Unknown)

\* lines 361-376: the loop over graph.nodes(); color_groups keeps for each
\* label the colour get_author_color returned when the group was opened
RECURSIVE color_nodes(_, _, _, _, _)
color_nodes(store, nodes, color_mode, color_map, color_groups) ==
    IF nodes = <<>> THEN [color_map |-> color_map, groups |-> color_groups]
    ELSE LET label == label_of(store, Head(nodes), color_mode)
             got == get_author_color_3(label, color_map)
         IN  color_nodes(store, Tail(nodes), color_mode, got.color_map,
                         IF label \in DOMAIN color_groups THEN color_groups
                         ELSE Put(color_groups, label, got.color))

\* lines 230-240 and 360-376 of draw_graph_plotly: the colour map of the
\* mode is taken from st.session_state and filled in place
draw_graph_plotly_3(store, nodes, color_mode, state) ==
    LET color_map == IF color_mode = "First Author"
                     THEN state.first_author_colors ELSE state.pi_colors
        drawn == color_nodes(store, nodes, color_mode, color_map, EmptyDict)
    IN  [groups |-> drawn.groups,
         session |-> IF color_mode = "First Author"
                     THEN [state EXCEPT !.first_author_colors = drawn.color_map]
                     ELSE [state EXCEPT !.pi_colors = drawn.color_map]]

\* what the end of a run shows: the store drawn, in which order, the legend
Page(op, color_mode, nodes, drawn, store, groups) ==
    [app |-> 3, op |-> op, mode |-> color_mode, nodes |-> nodes,
     drawn |-> drawn, store |-> store, groups |-> groups]

\* lines 513-516: the main graph area; nothing is drawn for an empty graph
MainGraphArea(op, color_mode, store, nodes) ==
    IF nodes = <<>>
    THEN /\ last' = Page(op, color_mode, nodes, FALSE, store, EmptyDict)
         /\ UNCHANGED session
    ELSE \E fig \in {draw_graph_plotly_3(store, nodes, color_mode, session)} :
            /\ last' = Page(op, color_mode, nodes, TRUE, store, fig.groups)
            /\ session' = fig.session

\* an uncaught exception ends the run before the main graph area
Traceback(op, color_mode) ==
    /\ last' = Page(op, color_mode, last.nodes, FALSE, EmptyStore, EmptyDict)
    /\ UNCHANGED session

OtherAuthors ==
    <<[family |-> <<"Y">>, given |-> <<"y">>, sequence |-> "first"],
      [family |-> <<"W">>, given |-> <<"w">>, sequence |-> "additional"]>>

AuthoredResponses ==
    {Response200(Message(TwoAuthors, <<>>)), Response200(Message(OtherAuthors, <<>>)),
     NoResponse}

\* d1 by X (PI Z) and d2 by Y (PI W), imported in this order
OneAuthorEach ==
    fetch_and_add_3(
        fetch_and_add_3(NoFile, D1, Response200(Message(TwoAuthors, <<>>))).file,
        D2, Response200(Message(OtherAuthors, <<>>))).file

InitColouring ==
    /\ \E seed \in {[file |-> NoFile, nodes |-> <<>>],
                    [file |-> OneAuthorEach, nodes |-> <<D1, D2>>]} :
        /\ file = seed.file
        /\ last = Page("open", "none", seed.nodes, FALSE, EmptyStore, EmptyDict)
    /\ prev = file
    /\ runs = 0
    /\ session = NewSession

\* a run with no button pressed (the page is opened, or the radio is moved)
RenderAuthors3 ==
    /\ runs < MaxRuns
    /\ \E color_mode \in ColorModes :
        MainGraphArea("render", color_mode, load_graph_from_json_3(file), last.nodes)
    /\ prev' = file
    /\ runs' = runs + 1
    /\ UNCHANGED file

\* Fetch and Add Paper, then the main graph area of the same run, drawn from
\* the store the handler left in memory
ImportAndRender3 ==
    /\ runs < MaxRuns
    /\ \E paper_doi \in {D1, D2}, response \in AuthoredResponses, color_mode \in ColorModes :
        \E r \in {fetch_and_add_3(file, paper_doi, response)} :
            /\ file' = r.file
            /\ IF r.report = "success"
               THEN MainGraphArea("importPaper", color_mode, r.saved,
                        IF paper_doi \in load_graph_from_json_3(file).nodes
                        THEN last.nodes ELSE Append(last.nodes, paper_doi))
               ELSE IF r.report = "error"
               THEN MainGraphArea("importPaper", color_mode,
                                  load_graph_from_json_3(file), last.nodes)
               ELSE Traceback("importPaper", color_mode)
    /\ prev' = file
    /\ runs' = runs + 1

\* Delete Paper ends with st.rerun(): the graph is drawn by the run that
\* follows, from the file
DeleteAndRender3 ==
    /\ runs < MaxRuns
    /\ Nodes3 # {}
    /\ \E selected_id \in Nodes3, color_mode \in ColorModes :
        \E r \in {delete_paper_3(file, selected_id, EmptyDict)} :
            /\ file' = r.file
            /\ IF r.report = "success"
               THEN MainGraphArea("deletePaper", color_mode,
                        load_graph_from_json_3(r.file),
                        SelectSeq(last.nodes, LAMBDA n : n # selected_id))
               ELSE Traceback("deletePaper", color_mode)
    /\ prev' = file
    /\ runs' = runs + 1

NextColouring ==
    \/ RenderAuthors3
    \/ ImportAndRender3
    \/ DeleteAndRender3

SpecColouring == InitColouring /\ [][NextColouring]_vars

(***************************************************************************)
(* Vocabulary of the properties.                                           *)
(***************************************************************************)
\* the papers and citations a script finds in a document when it starts
NodesOf(doc) == load_graph_from_json_3(doc).nodes

EdgesOf(doc) == load_graph_from_json_3(doc).edges

\* the five attributes of a paper in a store of citagraph3
Attributes(store, n) ==
    <<store.display_names[n], store.paper_info[n].author, store.paper_info[n].pi,
      store.paper_info[n].year, store.paper_links[n]>>

Incident(edges, id) == {e \in edges : e[1] = id \/ e[2] = id}

\* empty or whitespace only
Blank(s) == \A i \in 1..Len(s) : s[i] \in Whitespace

\* the decimal digits of n < 10000, thousands first
FourDigits(n) ==
    <<DigitChar((n \div 1000) % 10), DigitChar((n \div 100) % 10),
      DigitChar((n \div 10) % 10), DigitChar(n % 10)>>

\* the request raised, the status is not 200, or the body cannot be parsed
FetchFails(response) ==
    \/ response.raises
    \/ response.status_code # 200
    \/ ~response.body.json
    \/ "message" \notin DOMAIN response.body.doc
    \/ /\ "title" \in DOMAIN response.body.doc.message
       /\ response.body.doc.message["title"] = <<>>

\* message.reference of a response that was parsed
ReferenceList(response) == Get(response.body.doc.message, "reference", <<>>)

Imported == last.op = "importPaper" /\ last.report = "success"

EdgesAdded == Cardinality(EdgesOf(file)) - Cardinality(EdgesOf(prev))

(***************************************************************************)
(* Properties.                                                             *)
(***************************************************************************)
\* C1: the store that citagraph3 hands to save_graph_to_json is the store
\* that load_graph_from_json reads back from the file: same papers, same
\* citations, same title, author, pi, year and url for every paper.
RoundTrip ==
    (last.app = 3 /\ last.wrote) =>
        LET loaded == load_graph_from_json_3(file)
        IN  /\ loaded.nodes = last.saved.nodes
            /\ loaded.edges = last.saved.edges
            /\ \A n \in last.saved.nodes :
                   Attributes(loaded, n) = Attributes(last.saved, n)

\* an import that saved a store with a citation and an inferred pi
RoundTripWitness ==
    /\ Imported /\ last.wrote
    /\ last.saved.edges # {}
    /\ \E n \in last.saved.nodes : last.saved.paper_info[n].pi # Unknown
    /\ load_graph_from_json_3(file).edges = last.saved.edges

\* C2: deleting a paper of the store removes it, leaves no citation from or
\* to it, in the store and in the file, and leaves every other paper and
\* every other citation as the running script saw them before.
DeleteCascades ==
    (last.op = "deletePaper" /\ last.sel \in NodesOf(prev)) =>
        LET before == Loaded(last.app, prev)
            after == Loaded(last.app, file)
            id == last.sel
        IN  /\ last.report = "success" /\ last.wrote
            /\ id \notin after.nodes
            /\ id \notin DOMAIN file.papers
            /\ id \notin DOMAIN file.citations
            /\ \A p \in DOMAIN file.citations : id \notin file.citations[p]
            /\ Incident(after.edges, id) = {}
            /\ after.nodes = before.nodes \ {id}
            /\ after.edges = before.edges \ Incident(before.edges, id)
            /\ \A n \in after.nodes :
                /\ after.display_names[n] = before.display_names[n]
                /\ after.paper_info[n] = before.paper_info[n]
                /\ after.paper_links[n] = before.paper_links[n]

\* a cited paper was deleted while another paper stayed
DeleteCascadesWitness ==
    /\ last.op = "deletePaper" /\ last.report = "success"
    /\ \E e \in EdgesOf(prev) : e[2] = last.sel /\ e[1] # last.sel
    /\ NodesOf(file) # {}
    /\ last.sel \notin NodesOf(file)

\* C3: Add Citation from a to b on a store that already holds a -> b, as it
\* does after a first Add Citation from a to b, is reported as a warning and
\* writes nothing; on a store without it the citation is the only change.
\* Either way the store holds a -> b afterwards.
AddCitationIdempotent ==
    (last.op = "addCitation" /\ last.id # None /\ last.to # None) =>
        LET edge == <<last.id, last.to>>
        IN  /\ edge \in EdgesOf(file)
            /\ edge \in EdgesOf(prev) =>
                   last.report = "warning" /\ ~last.wrote /\ file = prev
            /\ edge \notin EdgesOf(prev) =>
                   /\ last.report = "success" /\ last.wrote
                   /\ EdgesOf(file) = EdgesOf(prev) \cup {edge}
                   /\ NodesOf(file) = NodesOf(prev)

\* the second Add Citation for a pair: a warning and no write
AddCitationIdempotentWitness ==
    /\ last.op = "addCitation" /\ last.report = "warning"
    /\ <<last.id, last.to>> \in EdgesOf(prev)
    /\ ~last.wrote /\ file = prev

\* C4: Add Paper with a blank id (empty or whitespace only) assigns an id
\* that no paper had, the four-digit zero-padded form of the smallest n >= 1
\* whose form is unused; with 0001, 0002 and 0004 in use it assigns 0003.
AutoIdSmallestUnused ==
    (last.op = "addPaper" /\ Blank(last.arg)) =>
        LET ids == NodesOf(prev)
        IN  /\ last.id \notin ids
            /\ last.id \in NodesOf(file)
            /\ \E n \in 1..(Cardinality(ids) + 1) :
                   /\ last.id = FourDigits(n)
                   /\ \A m \in 1..(n - 1) : FourDigits(m) \in ids
            /\ ids = {FourDigits(1), FourDigits(2), FourDigits(4)} =>
                   last.id = <<"0", "0", "0", "3">>

\* the gap below 0004 is filled from a whitespace-only input
AutoIdSmallestUnusedWitness ==
    /\ last.op = "addPaper" /\ last.arg = <<" ">>
    /\ NodesOf(prev) = {FourDigits(1), FourDigits(2), FourDigits(4)}
    /\ last.id = <<"0", "0", "0", "3">>

\* C5: after Add Paper completes, without an error even when the id given
\* was in use, the paper has no citation to it and none from it.
AddPaperHasNoEdges ==
    last.op = "addPaper" =>
        /\ last.report = "success"
        /\ Incident(EdgesOf(file), last.id) = {}

\* C6: when the metadata request raises, answers with a status other than
\* 200 or with a body that cannot be parsed, the import is reported as
\* failed, nothing is raised, and the file is not written: no paper and no
\* citation is added.
ImportFailureChangesNothing ==
    (last.op = "importPaper" /\ Truthy(last.id) /\ FetchFails(last.arg)) =>
        /\ last.report = "error"
        /\ ~last.wrote
        /\ file = prev

\* a 404 answer for a DOI typed into a library that has papers
ImportFailureChangesNothingWitness ==
    /\ last.op = "importPaper" /\ Truthy(last.id)
    /\ last.arg.status_code = 404
    /\ NodesOf(prev) # {}
    /\ last.report = "error" /\ file = prev

\* C7: a successful import adds the imported DOI to the papers and nothing
\* else, and every citation it adds goes from that DOI to a reference that
\* was a paper before the import.
ImportCitesEarlierPapersOnly ==
    Imported =>
        /\ NodesOf(file) = NodesOf(prev) \cup {last.id}
        /\ \A e \in EdgesOf(file) \ EdgesOf(prev) :
               e[1] = last.id /\ e[2] \in NodesOf(prev)

\* C8 as stated: the count an import reports is the number of citations it
\* added to the store.
ReportedCountIsEdgesAdded == Imported => last.count = EdgesAdded

\* C8: the count an import reports is the number of entries of the
\* reference list, repeats included, whose DOI is a paper of the store once
\* the imported paper is in it; the citations added are never more.
ReportedCountIsMatchingEntries ==
    Imported =>
        LET refs == ReferenceList(last.arg)
            known == NodesOf(prev) \cup {last.id}
            matching == {i \in 1..Len(refs) :
                            "DOI" \in DOMAIN refs[i] /\ refs[i].DOI \in known}
        IN  /\ last.count = Cardinality(matching)
            /\ EdgesAdded <= last.count

\* a reference list that names one paper twice: two reported, one added
ReportedCountIsMatchingEntriesWitness ==
    /\ Imported
    /\ last.count = 2
    /\ EdgesAdded = 1

EditAbsentIdIsAnError ==
    (last.op = "editPaper" /\ last.sel \notin NodesOf(prev)) =>
        /\ last.report \in {"error", "exception"}
        /\ ~last.wrote
        /\ file = prev

\* C10: the id that Save Changes edits is picked from the papers of the
\* store, so it is absent only when the store is empty; then nothing is
\* selected, no error is reported (citagraph3 shows an information line),
\* and nothing is written.
EditAbsentIdChangesNothing ==
    last.op = "editPaper" =>
        IF NodesOf(prev) = {}
        THEN /\ last.sel = None
             /\ last.report = IF last.app = 3 THEN "info" ELSE "none"
             /\ ~last.wrote
             /\ file = prev
        ELSE /\ last.sel \in NodesOf(prev)
             /\ last.report = "success"

\* citagraph3 with no papers: nothing to select
EditAbsentIdChangesNothingWitness ==
    /\ last.op = "editPaper" /\ last.app = 3
    /\ NodesOf(prev) = {}
    /\ last.sel = None
    /\ file = prev

\* the year a rendered paper holds
YearShown(n) == year_of(Loaded(last.app, file), n)

\* the labels of the legend under which a paper is drawn
LegendLabels(n) == {l \in DOMAIN last.groups : n \in last.groups[l].nodes}

\* the decade a legend label names, as text before the final "s"
LabelDecade(l) == int_of_str(SubSeq(l, 1, Len(l) - 1)).value

\* C11: on a page coloured by decade every paper is drawn under exactly one
\* label: "<d>s" with d = (year // 10) * 10 when its year parses as an
\* integer, "Unknown" when it does not; "1994" is under "1990s", "n/a" under
\* "Unknown".
DecadeGrouping ==
    last.op = "render" =>
        \A n \in NodesOf(file) :
            LET year == YearShown(n)
                parsed == int_of_str(year)
                expected == IF parsed.raised THEN Unknown
                            ELSE str_of_int((parsed.value \div 10) * 10) \o <<"s">>
            IN  /\ LegendLabels(n) = {expected}
                /\ year = <<"1", "9", "9", "4">> =>
                       LegendLabels(n) = {<<"1", "9", "9", "0", "s">>}
                /\ year = <<"n", "/", "a">> => LegendLabels(n) = {Unknown}

\* case-insensitive substring
IsSubstringIgnoringCase(query, value) ==
    \E start \in 0..(Len(value) - Len(query)) :
        \A i \in 1..Len(query) : lower(query[i]) = lower(value[start + i])

\* C14: the table shows exactly the rows in which every non-empty filter text
\* is a case-insensitive substring of the row's value in that field, in the
\* order of the unfiltered rows.
FilterIsSubstringMatch ==
    last.op = "render" =>
        LET matches(row) ==
                \A f \in DOMAIN last.filters :
                    last.filters[f] # <<>> =>
                        IsSubstringIgnoringCase(last.filters[f], row[f])
        IN  /\ ~last.raised
            /\ last.shown = SelectSeq(last.rows, matches)

\* C20: the label under which the legend draws a paper is the value of its
\* Decade column, and the colour of the group is the colour of that label's
\* decade: gray exactly when the label is "Unknown" or the decade has no
\* entry in the colour table.
DecadeLabelSameInEveryView ==
    last.op = "render" =>
        LET table == IF last.app = 2 THEN DecadeColors2 ELSE DecadeColors3
            gray == IF last.app = 2 THEN Gray2 ELSE Gray3
        IN  /\ \A i \in 1..Len(last.rows) :
                   LegendLabels(last.rows[i].id) = {last.rows[i].decade}
            /\ \A l \in DOMAIN last.groups :
                   /\ last.groups[l].color = gray <=>
                          (l = Unknown \/ LabelDecade(l) \notin DOMAIN table)
                   /\ last.groups[l].color # gray =>
                          last.groups[l].color = table[LabelDecade(l)]

\* the colour map the last call worked on, as it is now
ColourMap ==
    IF last.app = 2 THEN session.author_colors ELSE session.first_author_colors

\* C12: on one colour map a name keeps the colour it was given, and two
\* different names never have the same colour.
ColoursStableAndDistinct ==
    last.op = "get_author_color" =>
        /\ \A a \in DOMAIN last.before : ColourMap[a] = last.before[a]
        /\ last.color = ColourMap[last.author]
        /\ \A a, b \in DOMAIN ColourMap : a # b => ColourMap[a] # ColourMap[b]

\* the colour the exhausted palette hands to the name after n names
ExhaustedPaletteColour(n) ==
    LET P == Len(PaletteChannels)
        base == PaletteChannels[(n % P) + 1]
    IN  rgb_format([i \in 1..3 |-> (base[i] + 30 * (n \div P)) % 256])

\* C13: in citagraph3, a new name that arrives when every palette colour is
\* in use and the map holds n names gets palette[n mod P] with each channel
\* v replaced by (v + 30 * (n div P)) mod 256; every channel of every colour
\* in the map lies in 0..255.
PaletteExhaustion ==
    (last.op = "get_author_color" /\ last.app = 3) =>
        /\ (/\ last.author \notin DOMAIN last.before
            /\ \A i \in 1..Len(AUTHOR_COLORS) : AUTHOR_COLORS[i] \in Values(last.before))
           => last.color = ExhaustedPaletteColour(Cardinality(DOMAIN last.before))
        /\ \A a \in DOMAIN ColourMap : \A i \in 1..3 :
               rgb_values(ColourMap[a])[i] \in 0..255

\* the name after the whole palette: tomato with 30 added wraps to 29
PaletteExhaustionWitness ==
    /\ last.op = "get_author_color" /\ last.app = 3
    /\ last.author \notin DOMAIN last.before
    /\ Cardinality(DOMAIN last.before) = Len(AUTHOR_COLORS)
    /\ last.color = rgb_format(<<29, 129, 101>>)

\* what load_graph_from_json of the script app holds for field of paper p
LoadedField(app, field, p) ==
    LET store == Loaded(app, file)
    IN  IF field = "title" THEN store.display_names[p]
        ELSE IF field = "url" THEN store.paper_links[p]
        ELSE store.paper_info[p][field]

FieldsOf(app) ==
    IF app = 2 THEN {"title", "author", "year", "url"}
    ELSE {"title", "author", "pi", "year", "url"}

\* the fields of the file that are present load with their stored value
PresentFieldsLoadAsStored ==
    \A app \in {2, 3} : \A p \in DOMAIN file.papers : \A field \in FieldsOf(app) :
        field \in DOMAIN file.papers[p]
            => LoadedField(app, field, p) = file.papers[p][field]

\* a missing field of the file loads as the default
MissingFieldsLoadAs(default) ==
    \A app \in {2, 3} : \A p \in DOMAIN file.papers : \A field \in FieldsOf(app) :
        field \notin DOMAIN file.papers[p]
            => LoadedField(app, field, p) = default[field][p]

\* C15 as stated: a missing author, pi or year loads as "Unknown", a missing
\* title or url as the empty string; present fields load as stored.
LoadDefaultsBlankTitle ==
    /\ PresentFieldsLoadAsStored
    /\ MissingFieldsLoadAs([field \in FieldsOf(3) |-> [p \in DOMAIN file.papers |->
           IF field \in {"title", "url"} THEN EmptyStr ELSE Unknown]])

\* C15 amended: a missing author, pi or year loads as "Unknown", a missing
\* url as the empty string and a missing title as the paper's id; present
\* fields load as stored.
LoadDefaults ==
    /\ PresentFieldsLoadAsStored
    /\ MissingFieldsLoadAs([field \in FieldsOf(3) |-> [p \in DOMAIN file.papers |->
           IF field = "title" THEN p
           ELSE IF field = "url" THEN EmptyStr ELSE Unknown]])

\* a run of citagraph3 loaded a paper that had no title, author, pi and url
\* and wrote it back with the defaults filled in
LoadDefaultsWitness ==
    /\ last.wrote
    /\ last.app = 3
    /\ \E p \in DOMAIN prev.papers \cap DOMAIN file.papers :
        /\ DOMAIN prev.papers[p] = {"year"}
        /\ file.papers[p].title = p
        /\ file.papers[p].author = Unknown
        /\ file.papers[p].pi = Unknown
        /\ file.papers[p].url = EmptyStr
        /\ file.papers[p].year = prev.papers[p].year

\* message.author of the response the last import parsed
AuthorsFetched == last.arg.body.doc.message["author"]

ImportedAuthors == Imported /\ "author" \in DOMAIN last.arg.body.doc.message

FamilyOf(entry, default) ==
    IF "family" \in DOMAIN entry THEN entry.family ELSE default

Corresponding(entry) ==
    "corresponding" \in DOMAIN entry /\ entry.corresponding = TRUE

Additional(entry) ==
    "sequence" \in DOMAIN entry /\ entry.sequence = "additional"

\* C16 as stated: for a non-empty author list the principal investigator is
\* the family name of the last author, unless some author is flagged
\* corresponding, and then it is the family name of such an author; the
\* first author is the first entry of the list.
PiIsLastOrCorresponding ==
    (ImportedAuthors /\ AuthorsFetched # <<>>) =>
        LET authors == AuthorsFetched
            flagged == {i \in 1..Len(authors) : Corresponding(authors[i])}
            paper == file.papers[last.id]
        IN  /\ paper.author = FamilyOf(authors[1], Unknown)
            /\ IF flagged = {}
               THEN paper.pi = FamilyOf(authors[Len(authors)], Unknown)
               ELSE \E i \in flagged : paper.pi = FamilyOf(authors[i], Unknown)

\* C16 amended: for a list of two or more authors the principal investigator
\* is the family name of the last author, unless some author whose sequence
\* is "additional" is flagged corresponding, and then it is the family name
\* of the first such author; a name that is missing falls back to the last
\* author's and then to "Unknown". For a single author it is "Unknown". The
\* first author is the family name of the first entry.
PiInference ==
    (ImportedAuthors /\ AuthorsFetched # <<>>) =>
        LET authors == AuthorsFetched
            flagged == {i \in 1..Len(authors) :
                           Additional(authors[i]) /\ Corresponding(authors[i])}
            last_family == FamilyOf(authors[Len(authors)], Unknown)
            paper == file.papers[last.id]
        IN  /\ paper.author = FamilyOf(authors[1], Unknown)
            /\ Len(authors) = 1 => paper.pi = Unknown
            /\ (Len(authors) > 1 /\ flagged = {}) => paper.pi = last_family
            /\ (Len(authors) > 1 /\ flagged # {}) =>
                   \E i \in flagged :
                       /\ \A j \in flagged : i <= j
                       /\ paper.pi = FamilyOf(authors[i], last_family)

\* three authors, the second one additional and corresponding: the paper's
\* principal investigator is the second author, not the last
PiInferenceWitness ==
    /\ ImportedAuthors
    /\ Len(AuthorsFetched) = 3
    /\ Additional(AuthorsFetched[2]) /\ Corresponding(AuthorsFetched[2])
    /\ \A i \in 1..3 : "family" \in DOMAIN AuthorsFetched[i]
    /\ file.papers[last.id].pi = AuthorsFetched[2].family
    /\ file.papers[last.id].pi # AuthorsFetched[3].family
    /\ file.papers[last.id].author = AuthorsFetched[1].family

\* title, author, year and url of paper n as citagraph2 loads them from doc
Fields2(doc, n) ==
    LET store == load_graph_from_json_2(doc)
    IN  <<store.display_names[n], store.paper_info[n].author,
          store.paper_info[n].year, store.paper_links[n]>>

CitationSucceeded ==
    last.op \in {"addCitation", "removeCitation"} /\ last.report = "success"

\* C17: a successful Add Citation or Remove Citation from a to b, whatever
\* is typed and not saved in the Edit fields, leaves the papers of the file
\* and the title, author, year and url of each as they were, and changes the
\* citations of the file by the edge a -> b only.
CitationChangesOneEdgeOnly ==
    CitationSucceeded =>
        LET edge == <<last.id, last.to>>
        IN  /\ NodesOf(file) = NodesOf(prev)
            /\ DOMAIN file.papers = DOMAIN prev.papers
            /\ \A n \in DOMAIN prev.papers : Fields2(file, n) = Fields2(prev, n)
            /\ EdgesOf(file) \ {edge} = EdgesOf(prev) \ {edge}

\* the papers and citations a successful run of the last button makes of
\* the papers and citations it found
NodesProduced ==
    IF last.op \in {"addPaper", "importPaper"} THEN NodesOf(prev) \cup {last.id}
    ELSE IF last.op = "deletePaper" THEN NodesOf(prev) \ {last.id}
    ELSE NodesOf(prev)

EdgesProduced(edges) ==
    IF last.op = "deletePaper" THEN edges = EdgesOf(prev) \ Incident(EdgesOf(prev), last.id)
    ELSE IF last.op = "addCitation" THEN edges = EdgesOf(prev) \cup {<<last.id, last.to>>}
    ELSE IF last.op = "removeCitation" THEN edges = EdgesOf(prev) \ {<<last.id, last.to>>}
    ELSE IF last.op = "importPaper"
    THEN /\ EdgesOf(prev) \subseteq edges
         /\ \A e \in edges \ EdgesOf(prev) : e[1] = last.id
    ELSE edges = EdgesOf(prev)

\* C18: a run reports success exactly when it wrote the file; the file then
\* reloads to the papers and citations of the store the run saved, which are
\* those the action makes of the ones it loaded; a run that reports a
\* warning, an error or nothing leaves the file as it was.
SuccessIsPersisted ==
    /\ last.wrote <=> last.report = "success"
    /\ ~last.wrote => file = prev
    /\ last.wrote =>
        /\ NodesOf(file) = last.saved.nodes
        /\ EdgesOf(file) = last.saved.edges
        /\ NodesOf(file) = NodesProduced
        /\ EdgesProduced(EdgesOf(file))

\* a second button press in a row that succeeded and changed the file
SuccessIsPersistedWitness ==
    /\ runs = 2
    /\ last.op = "removeCitation"
    /\ last.report = "success" /\ last.wrote
    /\ <<last.id, last.to>> \in EdgesOf(prev) \ EdgesOf(file)
    /\ NodesOf(prev) # {}

\* C19: a successful import of doi leaves no citation from doi to doi in the
\* file unless the file held one before.
ImportAddsNoSelfCitation ==
    Imported => (<<last.id, last.id>> \in EdgesOf(file)
                    => <<last.id, last.id>> \in EdgesOf(prev))

\* C21: the colours of the legend drawn by First Author or by Principal
\* Investigator depend on the store drawn only: a session that has added,
\* deleted and drawn papers before shows every label in the colour that a
\* session opened just now shows for the same store.
ColouringIsFunctionOfStore ==
    last.drawn =>
        last.groups = draw_graph_plotly_3(last.store, last.nodes, last.mode, NewSession).groups

====
